---- MODULE Spec2Model ----
(***************************************************************************)
(* A model of oh-my-tuna (src/oh-my-tuna.py): the three mirror modules     *)
(* (ArchLinux, Homebrew, CTAN), the confirmation gate user_prompt, the     *)
(* read/compare/set helper ask_if_change and the driver main().            *)
(*                                                                         *)
(* Text is modelled as a sequence of tokens (strings): a file's content is *)
(* one flat token sequence, readlines splits it after every "\n" token and *)
(* writing concatenates.  A regular expression is modelled by a matcher    *)
(* that walks the tokens of a line the way re.match walks its characters.  *)
(* Host names are single tokens (the pattern's unescaped dots are read     *)
(* literally).  Calls on a class follow Python 3: m.up() calls the plain   *)
(* function up of the class m.                                             *)
(***************************************************************************)
EXTENDS Integers, Sequences, FiniteSets, TLC

VARIABLES
    mirrorlist,   \* content of /etc/pacman.d/mirrorlist, a token sequence
    mlAccess,     \* "rw", "ro" (open for writing fails) or "none" (open fails)
    archHost,     \* ArchLinux.is_applicable(): the file exists and the OS is arch
    brewOut,      \* what `brew --repo` yields through sh()
    tlmgrOK,      \* whether tlmgr commands run and exit with status 0
    tlmgrRepo,    \* the repository URL tlmgr is configured with
    always_yes,   \* the global flag of line 27
    last,         \* the most recent call of a module operation and its outcome
    prior,        \* the content of the mirrorlist when that call was made
    writes,       \* the calls that wrote the file or ran a set command, in order
    orig,         \* the content of the mirrorlist at start-up
    unit,         \* the module whose operations are called directly, "all" for any
                  \* of them, "main" when the driver runs
    pc,           \* the driver's position in main()
    idx,          \* the driver's index into MODULES
    subcommand,   \* args.subcommand
    online,       \* the value m.is_online() returned to the driver for MODULES[idx]
    log,          \* the lines Base.log printed, as <<module name, message>>
    checked,      \* the modules whose is_online the driver has called
    invoked,      \* the modules whose up/down block the driver has entered
    uncaught      \* the exception that ended main(), "" while there is none

vars == <<mirrorlist, mlAccess, archHost, brewOut, tlmgrOK, tlmgrRepo, always_yes,
          last, prior, writes, orig, unit, pc, idx, subcommand, online, log, checked, invoked,
          uncaught>>

envVars == <<mlAccess, archHost, brewOut, tlmgrOK, orig, unit>>
driverVars == <<pc, idx, subcommand, online, log, checked, invoked, uncaught>>

----------------------------------------------------------------------------
(* Bounds of the model *)

\* Longest mirrorlist (in lines) the file modules start from.
MaxLines == 3
\* Most writes (file writes, set commands) made by directly called operations.
MaxWrites == 3
\* Longest mirrorlist (in lines) where all three modules are in play: the runs of
\* the driver, and direct calls across the modules.
MaxDriverLines == 1

----------------------------------------------------------------------------
(* Text *)

mirror_root == "mirrors.tuna.tsinghua.edu.cn"

NL == "\n"
SP == " "
ArchPath == "/archlinux/$repo/os/$path"

\* The banner string of ArchLinux.up.
banner == <<"# Generated and managed by the awesome oh-my-tuna", NL>>

\* The target string of ArchLinux.up: the server line and an empty line.
target == <<"Server", SP, "=", SP, "https", "://", mirror_root, ArchPath, NL, NL>>

\* file.readlines(): the content cut after every "\n"; a last piece without "\n" is a line.
RECURSIVE readlines(_)
readlines(content) ==
    IF content = <<>> THEN <<>>
    ELSE LET ends == {n \in 1..Len(content) : content[n] = NL}
             cut == IF ends = {} THEN Len(content)
                    ELSE CHOOSE n \in ends : \A k \in ends : n <= k
         IN <<SubSeq(content, 1, cut)>> \o readlines(SubSeq(content, cut + 1, Len(content)))

\* file.writelines(lines): the lines one after the other.
RECURSIVE writelines(_)
writelines(lines) ==
    IF lines = <<>> THEN <<>> ELSE Head(lines) \o writelines(Tail(lines))

\* filter(pred, lines), for pred given as the set of lines to keep.
RECURSIVE filter(_, _)
filter(keep, lines) ==
    IF lines = <<>> THEN <<>>
    ELSE IF Head(lines) \in keep THEN <<Head(lines)>> \o filter(keep, Tail(lines))
         ELSE filter(keep, Tail(lines))

\* The regex piece " *": the first position at or after i that holds no space.
RECURSIVE SkipSpaces(_, _)
SkipSpaces(l, i) ==
    IF i <= Len(l) /\ l[i] = SP THEN SkipSpaces(l, i + 1) ELSE i

\* The regex piece Server *= *(http|https)://<mirror_root>/archlinux/\$repo/os/\$path\n
\* matched at position i of line l.
MatchServer(l, i) ==
    /\ i <= Len(l)
    /\ l[i] = "Server"
    /\ LET j == SkipSpaces(l, i + 1)
       IN /\ j <= Len(l)
          /\ l[j] = "="
          /\ LET k == SkipSpaces(l, j + 1)
             IN /\ k + 4 <= Len(l)
                /\ l[k] \in {"http", "https"}
                /\ l[k + 1] = "://"
                /\ l[k + 2] = mirror_root
                /\ l[k + 3] = ArchPath
                /\ l[k + 4] = NL

\* re.match of the mirror_re of ArchLinux.is_online: an uncommented mirror line.
IsOnline_mirror_re(l) == MatchServer(l, SkipSpaces(l, 1))

\* re.match of the mirror_re of ArchLinux.up: a mirror line, commented or not.
Up_mirror_re(l) ==
    LET i == SkipSpaces(l, 1)
    IN IF i <= Len(l) /\ l[i] = "#"
       THEN MatchServer(l, SkipSpaces(l, i + 1))
       ELSE MatchServer(l, i)

\* re.match of the mirror_re of ArchLinux.down: an uncommented mirror line.
Down_mirror_re(l) == MatchServer(l, SkipSpaces(l, 1))

----------------------------------------------------------------------------
(* Shell commands and the confirmation gate *)

\* What sh() returns: the command's trimmed output, or None when it raised.
None == [ok |-> FALSE, out |-> <<>>]
Output(text) == [ok |-> TRUE, out |-> text]

HomebrewURL == <<"https://", mirror_root, "/git/homebrew/brew.git">>

\* The string CTAN.is_online and CTAN.up expect `tlmgr option repository` to print.
CTANExpected ==
    <<"Default package repository (repository): ",
      "http://mirrors.tuna.tsinghua.edu.cn/CTAN/systems/texlive/tlnet">>

\* The URL the set command of CTAN.up passes to tlmgr.
CTANSetURL == "https://mirrors.tuna.tsinghua.edu.cn/CTAN/systems/texlive/tlnet"

\* sh('tlmgr option repository')
sh_tlmgr_option_repository ==
    IF tlmgrOK
    THEN Output(<<"Default package repository (repository): ", tlmgrRepo>>)
    ELSE None

\* What the user may type at the prompt of user_prompt.
Answers == {"y", "n", "a", ""}

\* user_prompt without its first two lines: the flag is never consulted.
user_prompt_unconditional(ans) ==
    [ret |-> ans # "n", always_yes |-> (ans = "a"), read |-> TRUE]

\* user_prompt(): the decision, the flag afterwards, and whether input was read.
user_prompt(ans) ==
    IF always_yes
    THEN [ret |-> TRUE, always_yes |-> always_yes, read |-> FALSE]
    ELSE [ret |-> ans # "n",
          always_yes |-> IF ans = "a" THEN TRUE ELSE always_yes,
          read |-> TRUE]

\* The outcome of an operation that does nothing: what it returns or raises, the
\* state it leaves, and what it did on the way.
\*   ret, exc      the value returned; the exception raised ("" when it returned)
\*   ml, repo, ay  the mirrorlist, tlmgr's repository and always_yes afterwards
\*   asked, read   user_prompt was called; input() was called
\*   approved      user_prompt returned True
\*   wrote         the file was opened for writing and written, or a set command was run
\*   applied       the write or the set command took effect
\*   readFailed    the current configuration could not be read
\*   msg           what the operation printed about its result
Nothing ==
    [ret |-> FALSE, exc |-> "", ml |-> mirrorlist, repo |-> tlmgrRepo, ay |-> always_yes,
     asked |-> FALSE, read |-> FALSE, approved |-> FALSE, wrote |-> FALSE,
     applied |-> FALSE, readFailed |-> FALSE, msg |-> ""]

Prompted(ans) ==
    LET p == user_prompt(ans)
    IN [Nothing EXCEPT !.ay = p.always_yes, !.asked = TRUE, !.read = p.read,
                       !.approved = p.ret]

\* ask_if_change(name, expected, command_read, command_set), for the commands of
\* CTAN.up; setOk: the set command exits with status 0.
ask_if_change(expected, current, setURL, ans, setOk) ==
    IF current # Output(expected)
    THEN LET o == Prompted(ans)
         IN IF o.approved
            THEN [o EXCEPT !.ret = TRUE, !.wrote = TRUE,
                           !.applied = tlmgrOK /\ setOk,
                           !.repo = IF tlmgrOK /\ setOk THEN setURL ELSE tlmgrRepo,
                           !.readFailed = ~current.ok,
                           !.msg = "succeeded"]
            ELSE [o EXCEPT !.readFailed = ~current.ok]
    ELSE [Nothing EXCEPT !.ret = TRUE, !.msg = "already configured"]

----------------------------------------------------------------------------
(* The modules *)

MODULES == <<"ArchLinux", "Homebrew", "CTAN">>

ModuleNames == {MODULES[n] : n \in 1..Len(MODULES)}

Range(seq) == {seq[n] : n \in 1..Len(seq)}

\* ArchLinux.is_online: any line of the file matches; open() raises when it fails.
ArchLinux_is_online ==
    IF mlAccess = "none"
    THEN [Nothing EXCEPT !.exc = "IOError", !.readFailed = TRUE]
    ELSE [Nothing EXCEPT !.ret = \E l \in Range(readlines(mirrorlist)) : IsOnline_mirror_re(l)]

\* The count k of the while loop of ArchLinux.up: the leading "\n" lines.
RECURSIVE Padding(_)
Padding(lines) ==
    IF lines # <<>> /\ Head(lines) = <<NL>> THEN 1 + Padding(Tail(lines)) ELSE 0

\* ArchLinux.up with the uncommented pattern of is_online in its first filter.
ArchLinux_up_lines_uncommented_only(lines) ==
    LET unmatched == filter({l \in Range(lines) : ~IsOnline_mirror_re(l)}, lines)
        unbannered == filter({l \in Range(unmatched) : l # banner}, unmatched)
        k == Padding(unbannered)
    IN SubSeq(unbannered, k + 1, Len(unbannered))

\* ArchLinux.up without its second filter: an earlier banner stays.
ArchLinux_up_lines_banner_kept(lines) ==
    LET unmatched == filter({l \in Range(lines) : ~Up_mirror_re(l)}, lines)
        k == Padding(unmatched)
    IN SubSeq(unmatched, k + 1, Len(unmatched))

\* The lines ArchLinux.up writes after banner and target: lines[k:] of the lines
\* left by the two filters.
ArchLinux_up_lines(lines) ==
    LET unmatched == filter({l \in Range(lines) : ~Up_mirror_re(l)}, lines)
        unbannered == filter({l \in Range(unmatched) : l # banner}, unmatched)
        k == Padding(unbannered)
    IN SubSeq(unbannered, k + 1, Len(unbannered))

\* ArchLinux.up
ArchLinux_up(ans) ==
    LET o == Prompted(ans)
    IN IF ~o.approved THEN o
       ELSE IF mlAccess = "none" THEN [o EXCEPT !.exc = "IOError", !.readFailed = TRUE]
       ELSE IF mlAccess = "ro" THEN [o EXCEPT !.exc = "IOError"]
       ELSE [o EXCEPT !.ret = TRUE, !.wrote = TRUE, !.applied = TRUE,
                      !.ml = banner \o target
                             \o writelines(ArchLinux_up_lines(readlines(mirrorlist)))]

\* ArchLinux.down with the pattern of up: a commented line is commented again.
ArchLinux_down_lines_any(lines) ==
    [n \in 1..Len(lines) |->
        IF Up_mirror_re(lines[n]) THEN <<"#", SP>> \o lines[n] ELSE lines[n]]

\* The map of ArchLinux.down: '# ' before every line that matches.
ArchLinux_down_lines(lines) ==
    [n \in 1..Len(lines) |->
        IF Down_mirror_re(lines[n]) THEN <<"#", SP>> \o lines[n] ELSE lines[n]]

\* ArchLinux.down asking after it has written.
ArchLinux_down_write_first(ans) ==
    LET o == Prompted(ans)
    IN IF mlAccess = "none" THEN [o EXCEPT !.exc = "IOError", !.readFailed = TRUE]
       ELSE IF mlAccess = "ro" THEN [o EXCEPT !.exc = "IOError"]
       ELSE [o EXCEPT !.ret = o.approved, !.wrote = TRUE, !.applied = TRUE,
                      !.ml = writelines(ArchLinux_down_lines(readlines(mirrorlist)))]

\* ArchLinux.down
ArchLinux_down(ans) ==
    LET o == Prompted(ans)
    IN IF ~o.approved THEN o
       ELSE IF mlAccess = "none" THEN [o EXCEPT !.exc = "IOError", !.readFailed = TRUE]
       ELSE IF mlAccess = "ro" THEN [o EXCEPT !.exc = "IOError"]
       ELSE [o EXCEPT !.ret = TRUE, !.wrote = TRUE, !.applied = TRUE,
                      !.ml = writelines(ArchLinux_down_lines(readlines(mirrorlist)))]

\* Homebrew.is_online: the output of `brew --repo` against the mirror's URL.
Homebrew_is_online ==
    [Nothing EXCEPT !.ret = (brewOut = Output(HomebrewURL)), !.readFailed = ~brewOut.ok]

\* Homebrew.up: the name repo is bound nowhere, so `with cd(repo)` raises.
Homebrew_up == [Nothing EXCEPT !.exc = "NameError"]

\* Base.up and Base.down, inherited where a module defines none.
Base_unimplemented == [Nothing EXCEPT !.exc = "NotImplementedError"]

\* CTAN.is_online
CTAN_is_online ==
    [Nothing EXCEPT !.ret = (sh_tlmgr_option_repository = Output(CTANExpected)),
                    !.readFailed = ~sh_tlmgr_option_repository.ok]

\* CTAN.up
CTAN_up(ans, setOk) ==
    ask_if_change(CTANExpected, sh_tlmgr_option_repository, CTANSetURL, ans, setOk)

\* m.is_applicable()
is_applicable(m) ==
    CASE m = "ArchLinux" -> archHost
      [] m = "Homebrew" -> brewOut # None
      [] m = "CTAN" -> tlmgrOK

\* m.is_online()
is_online(m) ==
    CASE m = "ArchLinux" -> ArchLinux_is_online
      [] m = "Homebrew" -> Homebrew_is_online
      [] m = "CTAN" -> CTAN_is_online

\* m.up()
up(m, ans, setOk) ==
    CASE m = "ArchLinux" -> ArchLinux_up(ans)
      [] m = "Homebrew" -> Homebrew_up
      [] m = "CTAN" -> CTAN_up(ans, setOk)

\* m.down()
down(m, ans) ==
    CASE m = "ArchLinux" -> ArchLinux_down(ans)
      [] m = "Homebrew" -> Base_unimplemented
      [] m = "CTAN" -> Base_unimplemented

\* The modules that define the operation themselves.
Implements(m, op) ==
    CASE op = "up" -> TRUE
      [] op = "down" -> m = "ArchLinux"

\* cls.name(): CTAN defines nam, not name, and inherits Base.name, which raises.
name(m) ==
    CASE m = "ArchLinux" -> [exc |-> "", ret |-> "Arch Linux"]
      [] m = "Homebrew" -> [exc |-> "", ret |-> "Homebrew"]
      [] m = "CTAN" -> [exc |-> "NotImplementedError", ret |-> ""]

\* The state after a call of operation op of module m with outcome o.
Apply(m, op, o) ==
    /\ mirrorlist' = o.ml
    /\ tlmgrRepo' = o.repo
    /\ always_yes' = o.ay
    /\ last' = [m |-> m, op |-> op, ret |-> o.ret, exc |-> o.exc, asked |-> o.asked,
                read |-> o.read, approved |-> o.approved, wrote |-> o.wrote,
                applied |-> o.applied, readFailed |-> o.readFailed, msg |-> o.msg]
    /\ prior' = mirrorlist
    /\ writes' = IF o.wrote THEN Append(writes, <<m, op>>) ELSE writes

NoCall ==
    [m |-> "", op |-> "", ret |-> FALSE, exc |-> "", asked |-> FALSE, read |-> FALSE,
     approved |-> FALSE, wrote |-> FALSE, applied |-> FALSE, readFailed |-> FALSE,
     msg |-> ""]

----------------------------------------------------------------------------
(* The inputs: mirrorlist files, command outputs *)

\* 'Server = https://<mirror_root>/archlinux/$repo/os/$path\n', the line up inserts.
TargetLine == SubSeq(target, 1, Len(target) - 1)
\* ' Server=http://<mirror_root>/archlinux/$repo/os/$path\n'
HttpLine == <<SP, "Server", "=", "http", "://", mirror_root, ArchPath, NL>>
\* '#Server = https://<mirror_root>/archlinux/$repo/os/$path\n'
CommentedLine == <<"#", "Server", SP, "=", SP, "https", "://", mirror_root, ArchPath, NL>>
\* 'Server = https://other.mirror/archlinux/$repo/os/$path\n'
OtherLine == <<"Server", SP, "=", SP, "https", "://", "other.mirror", ArchPath, NL>>
BlankLine == <<NL>>
\* The target's server line as the last line of a file that does not end in "\n".
UnterminatedLine == SubSeq(TargetLine, 1, Len(TargetLine) - 1)

Lines == {TargetLine, HttpLine, CommentedLine, OtherLine, BlankLine, banner}

LineSeqs(S, n) == UNION {[1..k -> S] : k \in 0..n}

\* The files of at most n lines over S; the last line may lack its "\n".
Documents(S, n) ==
    {writelines(ls) : ls \in LineSeqs(S, n)}
    \cup (IF n = 0 THEN {}
          ELSE {writelines(ls) \o UnterminatedLine : ls \in LineSeqs(S, n - 1)})

Accesses == {"rw", "ro", "none"}

BrewOutputs == {None, Output(<<"/usr/local/Homebrew">>), Output(HomebrewURL)}

Repositories ==
    {"http://mirror.ctan.org/systems/texlive/tlnet", CTANExpected[2], CTANSetURL}

\* Whether the set command exits with status 0, for the one module that runs one.
SetOutcomes(m) == IF m = "CTAN" THEN BOOLEAN ELSE {TRUE}

----------------------------------------------------------------------------
(* The operations called directly, one module at a time *)

\* The modules whose operations are called.
Callable == IF unit = "all" THEN ModuleNames ELSE {unit}

\* One module with every state of its tool, or all three on a host that has the
\* three tools in their default configuration.
InitAPI ==
    /\ unit \in ModuleNames \cup {"all"}
    /\ always_yes \in BOOLEAN
    /\ IF unit = "ArchLinux"
       THEN mirrorlist \in Documents(Lines, MaxLines) /\ mlAccess \in Accesses
       ELSE IF unit = "all"
       THEN mirrorlist \in Documents({OtherLine}, MaxDriverLines) /\ mlAccess = "rw"
       ELSE mirrorlist = <<>> /\ mlAccess = "rw"
    /\ archHost = (unit \in {"ArchLinux", "all"})
    /\ IF unit = "Homebrew" THEN brewOut \in BrewOutputs
       ELSE IF unit = "all" THEN brewOut = Output(<<"/usr/local/Homebrew">>)
       ELSE brewOut = None
    /\ IF unit = "CTAN" THEN tlmgrOK \in BOOLEAN /\ tlmgrRepo \in Repositories
       ELSE /\ tlmgrOK = (unit = "all")
            /\ tlmgrRepo = "http://mirror.ctan.org/systems/texlive/tlnet"
    /\ orig = mirrorlist
    /\ last = NoCall
    /\ prior = mirrorlist
    /\ writes = <<>>
    /\ pc = "api" /\ idx = 0 /\ subcommand = "" /\ online = FALSE /\ log = <<>>
    /\ checked = {} /\ invoked = {} /\ uncaught = ""

Call_is_online ==
    /\ Len(writes) < MaxWrites
    /\ \E m \in Callable : Apply(m, "is_online", is_online(m))
    /\ UNCHANGED <<envVars, driverVars>>

Call_up ==
    /\ Len(writes) < MaxWrites
    /\ \E m \in Callable : \E ans \in Answers, setOk \in SetOutcomes(m) :
          Apply(m, "up", up(m, ans, setOk))
    /\ UNCHANGED <<envVars, driverVars>>

Call_down ==
    /\ Len(writes) < MaxWrites
    /\ \E m \in Callable : \E ans \in Answers : Apply(m, "down", down(m, ans))
    /\ UNCHANGED <<envVars, driverVars>>

NextAPI == Call_is_online \/ Call_up \/ Call_down

SpecAPI == InitAPI /\ [][NextAPI]_vars

----------------------------------------------------------------------------
(* The driver, main() *)

\* Base.log: the line printed, or the exception cls.name() raises.
Log(m, msg) ==
    IF name(m).exc = "" THEN [exc |-> "", lines |-> <<<<name(m).ret, msg>>>>]
    ELSE [exc |-> name(m).exc, lines |-> <<>>]

Init ==
    /\ unit = "main"
    /\ always_yes = FALSE
    /\ mirrorlist \in Documents({TargetLine, OtherLine}, MaxDriverLines)
    /\ mlAccess \in Accesses
    /\ archHost \in BOOLEAN
    /\ brewOut \in BrewOutputs
    /\ tlmgrOK \in BOOLEAN
    /\ tlmgrRepo \in Repositories
    /\ orig = mirrorlist
    /\ last = NoCall
    /\ prior = mirrorlist
    /\ writes = <<>>
    /\ pc = "start" /\ idx = 0 /\ subcommand = "" /\ online = FALSE /\ log = <<>>
    /\ checked = {} /\ invoked = {} /\ uncaught = ""

\* The for loop moves to the next module, or main() returns.
NextModule ==
    IF idx = Len(MODULES) THEN pc' = "done" /\ idx' = idx
    ELSE pc' = "applicable" /\ idx' = idx + 1

\* An exception nothing catches ends main().
Crash(exc) == pc' = "crashed" /\ uncaught' = exc /\ idx' = idx

\* parser.parse_args() and the two globals.
ParseArgs ==
    /\ pc = "start"
    /\ subcommand' \in {"up", "down", "status"}
    /\ always_yes' \in BOOLEAN
    /\ pc' = "applicable"
    /\ idx' = 1
    /\ UNCHANGED <<mirrorlist, tlmgrRepo, last, prior, writes, envVars, online, log, checked,
                   invoked, uncaught>>

\* if m.is_applicable():
IsApplicableStep ==
    /\ pc = "applicable"
    /\ IF is_applicable(MODULES[idx]) THEN pc' = "online" /\ idx' = idx ELSE NextModule
    /\ UNCHANGED <<mirrorlist, tlmgrRepo, always_yes, last, prior, writes, envVars, subcommand,
                   online, log, checked, invoked, uncaught>>

\* if (not) m.is_online():
IsOnlineStep ==
    /\ pc = "online"
    /\ LET m == MODULES[idx]
           o == is_online(m)
       IN /\ Apply(m, "is_online", o)
          /\ checked' = checked \cup {m}
          /\ IF o.exc # "" THEN Crash(o.exc) /\ online' = online
             ELSE /\ online' = o.ret
                  /\ uncaught' = uncaught
                  /\ IF subcommand = "status" THEN pc' = "status" /\ idx' = idx
                     ELSE IF subcommand = "up" /\ ~o.ret THEN pc' = "activate" /\ idx' = idx
                     ELSE IF subcommand = "down" /\ o.ret THEN pc' = "deactivate" /\ idx' = idx
                     ELSE NextModule
    /\ UNCHANGED <<envVars, subcommand, log, invoked>>

\* The body under the gate of the up and down loops: the log line, the try block
\* around the call o of the operation, and its except NotImplementedError clause.
Guarded(m, o, done, cancelled, unsupported) ==
    LET begin == Log(m, IF done = "Mirror has been activated" THEN "Activating..."
                        ELSE "Deactivating...")
        result == Log(m, IF o.ret THEN done ELSE cancelled)
        handler == Log(m, unsupported)
        raised == IF o.exc # "" THEN o.exc ELSE result.exc
    IN IF begin.exc # "" THEN [exc |-> begin.exc, lines |-> <<>>, called |-> FALSE]
       ELSE IF raised = "" THEN [exc |-> "", lines |-> begin.lines \o result.lines, called |-> TRUE]
       ELSE IF raised # "NotImplementedError"
            THEN [exc |-> raised, lines |-> begin.lines, called |-> TRUE]
       ELSE [exc |-> handler.exc, lines |-> begin.lines \o handler.lines, called |-> TRUE]

\* The step a guarded call makes: the operation's effects when it was called, the
\* lines logged, and the loop going on unless an exception escaped.
GuardedStep(m, op, o, g) ==
    /\ invoked' = invoked \cup {m}
    /\ IF g.called THEN Apply(m, op, o)
       ELSE UNCHANGED <<mirrorlist, tlmgrRepo, always_yes, last, prior, writes>>
    /\ log' = log \o g.lines
    /\ IF g.exc # "" THEN Crash(g.exc) ELSE NextModule /\ uncaught' = uncaught
    /\ UNCHANGED <<envVars, subcommand, online, checked>>

\* lines 285-293
ActivateStep ==
    /\ pc = "activate"
    /\ \E ans \in Answers, setOk \in SetOutcomes(MODULES[idx]) :
          LET m == MODULES[idx]
              o == up(m, ans, setOk)
          IN GuardedStep(m, "up", o,
                 Guarded(m, o, "Mirror has been activated", "Operation cancled",
                         "Mirror doesn't support activation. Please activate manually"))

\* lines 299-307
DeactivateStep ==
    /\ pc = "deactivate"
    /\ \E ans \in Answers :
          LET m == MODULES[idx]
              o == down(m, ans)
          IN GuardedStep(m, "down", o,
                 Guarded(m, o, "Mirror has been deactivated", "Operation cancled",
                         "Mirror doesn't support deactivation. Please deactivate manually"))

\* lines 312-315
StatusStep ==
    /\ pc = "status"
    /\ LET l == Log(MODULES[idx], IF online THEN "Online" ELSE "Offline")
       IN /\ log' = log \o l.lines
          /\ IF l.exc # "" THEN Crash(l.exc) ELSE NextModule /\ uncaught' = uncaught
    /\ UNCHANGED <<mirrorlist, tlmgrRepo, always_yes, last, prior, writes, envVars, subcommand,
                   online, checked, invoked>>

Next ==
    \/ ParseArgs
    \/ IsApplicableStep
    \/ IsOnlineStep
    \/ ActivateStep
    \/ DeactivateStep
    \/ StatusStep

Spec == Init /\ [][Next]_vars

----------------------------------------------------------------------------
(* What the claims speak of, stated without the code's patterns.  A line is a  *)
(* complete line, ended by "\n", as the lines the program itself writes are: *)
(* the text after the last "\n" of a file that does not end in one is neither *)
(* a mirror line nor a banner, whatever it holds.                            *)

\* A line without its spaces.
Strip(l) == filter({t \in Range(l) : t # SP}, l)

\* The active mirror lines for the target root, spaces aside: Server = URL "\n",
\* with either scheme.
ActiveForms ==
    {<<"Server", "=", scheme, "://", mirror_root, ArchPath, NL>> : scheme \in {"http", "https"}}

ActiveMirrorLine(l) == Strip(l) \in ActiveForms

\* A mirror line for the target root, commented or not.
MirrorLine(l) == Strip(l) \in ActiveForms \cup {<<"#">> \o f : f \in ActiveForms}

\* The lines of a file that are neither mirror lines for the target root nor banners.
Foreign(lines) == filter({l \in Range(lines) : ~MirrorLine(l) /\ l # banner}, lines)

\* t is s without some (or none) of its leading blank lines, and starts with none.
Unpadded(s, t) ==
    /\ \E k \in 0..Len(s) :
          /\ \A n \in 1..k : s[n] = BlankLine
          /\ t = SubSeq(s, k + 1, Len(s))
    /\ t # <<>> => t[1] # BlankLine

\* The step is a call of operation op of module m.
Called(m, op) == last'.m = m /\ last'.op = op

\* The calls that wrote are: ArchLinux.down, ArchLinux.up once or more, ArchLinux.down.
DownUpDown ==
    /\ Len(writes) >= 3
    /\ writes[1] = <<"ArchLinux", "down">>
    /\ writes[Len(writes)] = <<"ArchLinux", "down">>
    /\ \A n \in 2..(Len(writes) - 1) : writes[n] = <<"ArchLinux", "up">>

\* The name a module's log lines are meant to carry.
DisplayName(m) ==
    CASE m = "ArchLinux" -> "Arch Linux" [] m = "Homebrew" -> "Homebrew" [] m = "CTAN" -> "CTAN"

Unsupported ==
    CASE subcommand = "up" -> "Mirror doesn't support activation. Please activate manually"
      [] subcommand = "down" -> "Mirror doesn't support deactivation. Please deactivate manually"
      [] OTHER -> ""

----------------------------------------------------------------------------
(* The claims *)

\* C1: when main() has ended, on its own or by an exception, every applicable
\* module has had its is_online called: a failure in one module's is_online, up or
\* down has kept no later module from being processed.
C1_FailureIsolated ==
    pc \in {"done", "crashed"} =>
        \A n \in 1..Len(MODULES) : is_applicable(MODULES[n]) => MODULES[n] \in checked

\* C2: an up that follows an approved up that returned True writes nothing, runs
\* no set command, and reports that the module is already configured.
C2_SecondUpIsNoOp ==
    [][(/\ last.op = "up" /\ last.exc = "" /\ last.ret /\ last.approved
        /\ Called(last.m, "up"))
       => (/\ ~last'.wrote
           /\ mirrorlist' = mirrorlist
           /\ tlmgrRepo' = tlmgrRepo
           /\ last'.msg = "already configured")]_vars

\* C3: an up that had a change to make returns True only if the user approved it
\* and it took effect; it returns False when the user declined and when the write
\* or set command did not take effect.
C3_TrueMeansApplied ==
    (last.op = "up" /\ last.exc = "" /\ last.msg # "already configured") =>
        /\ last.ret => (last.approved /\ last.applied)
        /\ (last.asked /\ ~last.approved) => ~last.ret
        /\ (last.wrote /\ ~last.applied) => ~last.ret

\* C4: an is_online that could not read the current configuration returns False
\* and raises nothing.
C4_UnreadableIsOffline ==
    (last.op = "is_online" /\ last.readFailed) => (last.exc = "" /\ ~last.ret)

\* C5: once the driver has entered the up/down block of a module that does not
\* implement the operation, the log holds that module's "doesn't support" line
\* and no exception has ended the run.
C5_UnsupportedIsLogged ==
    \A m \in invoked :
        ~Implements(m, subcommand) =>
            /\ <<DisplayName(m), Unsupported>> \in Range(log)
            /\ uncaught = ""

\* C6: an ArchLinux.up or ArchLinux.down whose confirmation the user declined
\* leaves the mirrorlist as it was, writes nothing and returns False.
C6_DeclineLeavesFile ==
    (last.m = "ArchLinux" /\ last.op \in {"up", "down"} /\ last.asked /\ ~last.approved)
        => (/\ mirrorlist = prior
            /\ ~last.wrote
            /\ last.exc = ""
            /\ ~last.ret)

\* A declined down on a file that holds an active mirror line.
C6_Witness ==
    /\ last.m = "ArchLinux" /\ last.op = "down" /\ last.asked /\ ~last.approved
    /\ ~last.ret
    /\ \E l \in Range(readlines(mirrorlist)) : ActiveMirrorLine(l)

\* C7: once always_yes is set it stays set, and every confirmation made while it
\* is set approves without reading input.
C7_AlwaysYesSticks ==
    [][always_yes => (/\ always_yes'
                      /\ last'.asked => (last'.approved /\ ~last'.read))]_vars

\* The flag was set by an answer 'a' in one module, and a confirmation of another
\* module then approved without reading input.
C7_Witness ==
    /\ unit = "all"
    /\ always_yes
    /\ Len(writes) >= 2
    /\ writes[1][1] # writes[Len(writes)][1]
    /\ last.m = writes[Len(writes)][1]
    /\ last.asked /\ last.approved /\ ~last.read

====
